---- MODULE Spec2Model ----
(***************************************************************************)
(* Model of backend/server.py: the AI ad generation API.                   *)
(*                                                                         *)
(* State: the AIService singleton (hf_token, client), the two MongoDB      *)
(* collections (companies, ads), the uuid source, and the requests that    *)
(* are suspended at an await.  A handler runs without interruption between *)
(* two awaits (one asyncio event loop), so every action is one such        *)
(* stretch of a handler together with the database operation it awaited.   *)
(* AIService.generate_ad_image contains no await: it runs inside the       *)
(* stretch that calls it.                                                  *)
(*                                                                         *)
(* Text is a sequence of tokens: the literal pieces of an f-string and the *)
(* values formatted into it.  created_at timestamps and Mongo's _id are    *)
(* left out: no handler reads them.  The database driver is taken to       *)
(* answer, except for the insert inside generate_ad's try block, whose     *)
(* failure the handler catches.                                            *)
(***************************************************************************)
EXTENDS Integers, Sequences, FiniteSets, Bags, TLC

VARIABLES hf_token, client, defaultFont, companies, ads, nextId, inflight, resp,
          insertedIds, deletedIds, delOk

vars == <<hf_token, client, defaultFont, companies, ads, nextId, inflight, resp,
          insertedIds, deletedIds, delOk>>

config == <<hf_token, client, defaultFont>>

(***************************************************************************)
(* Bounds.                                                                 *)
(***************************************************************************)
\* ids handed out by uuid4 over a run (companies and ads together)
MaxId == 3
\* requests suspended at an await at the same time
MaxInFlight == 2

\* Python's None
Null == "<None>"

\* id 0 is an id no record ever has
Ids == 0..MaxId

(***************************************************************************)
(* Inputs.                                                                 *)
(***************************************************************************)
\* a name the bitmap default font of Pillow cannot encode (not Latin-1)
NonLatin1Name == "U+65E5 U+672C"

\* request bodies of POST /api/companies
Profiles ==
    { [name |-> "Acme", industry |-> "Retail", product_service |-> "Shoes",
       target_audience |-> "Teens", brand_description |-> "", website |-> ""],
      [name |-> NonLatin1Name, industry |-> "Technology",
       product_service |-> "AI Testing Services",
       target_audience |-> "Developers and QA Engineers",
       brand_description |-> Null, website |-> "https://example.com"] }

\* request bodies of POST /api/generate-ad, company_id apart
AdOptions ==
    { [ad_type |-> "banner", custom_prompt |-> "", style |-> "modern"],
      [ad_type |-> "banner", style |-> "modern",
       custom_prompt |-> "Show our product in action with happy customers"],
      [ad_type |-> "story", custom_prompt |-> Null, style |-> Null] }

\* what the environment holds in HF_TOKEN
Tokens == {Null, "hf_secret"}

\* what ImageFont.load_default() gives in the installed Pillow
Fonts == {"bitmap", "freetype"}

\* what the remote text_to_image call does: it returns an image, it raises, or
\* it returns something image.save raises on
RemoteOutcomes == {"image", "raise", "malformed"}

(***************************************************************************)
(* Python values.                                                          *)
(***************************************************************************)
\* truth value of an Optional[str]
Truthy(v) == v # Null /\ v # ""

\* str(v), as an f-string formats it
Fmt(v) == IF v = Null THEN "None" ELSE v

\* pydantic: a field declared str
IsStr(v) == v # Null

\* s in text, for a text of tokens
Embeds(text, s) == s = "" \/ \E i \in 1..Len(text) : text[i] = s

(***************************************************************************)
(* Mock Image Renderer and encoding.                                       *)
(***************************************************************************)
\* draw.text raises on text the font cannot encode
TextFails(text) ==
    defaultFont = "bitmap" /\ \E i \in 1..Len(text) : text[i] = NonLatin1Name

\* img.save(buffer, format="PNG"); buffer.getvalue()
PngBytes(img) == <<"PNG signature", "IHDR 512x512", img>>

\* base64.b64encode(bytes).decode()
B64Encode(bytes) == [i \in 1..Len(bytes) |-> <<"b64", bytes[i]>>]

B64Decode(str) == [i \in 1..Len(str) |-> str[i][2]]

IsEncodedPng(str) ==
    /\ Len(str) >= 3
    /\ \A i \in 1..Len(str) : str[i][1] = "b64"
    /\ B64Decode(str)[1] = "PNG signature"

Canvas(texts) == [mode |-> "RGB", size |-> <<512, 512>>, color |-> "#f0f0f0",
                  texts |-> texts]

\* no string was returned
NoImage == <<>>

\* AIService._generate_mock_image: [raised, image]
generate_mock_image(company_name) ==
    LET two == <<"Mock Ad for\n", company_name>>
        one == <<"Mock Ad for ", company_name>>
    IN  IF ~TextFails(two)
        THEN [raised |-> FALSE,
              image |-> B64Encode(PngBytes(Canvas(<<two, <<"Generated with AI">> >>)))]
        ELSE IF ~TextFails(one)
        THEN [raised |-> FALSE, image |-> B64Encode(PngBytes(Canvas(<<one>>)))]
        ELSE [raised |-> TRUE, image |-> NoImage]

(***************************************************************************)
(* AI Service Abstraction Layer.                                           *)
(***************************************************************************)
\* AIService.__init__: the client exists iff HF_TOKEN is truthy
InferenceClient(token) == IF Truthy(token) THEN "InferenceClient" ELSE Null

\* the prompt generate_ad_image sends to the model
AdPrompt(prompt, company_name) ==
    <<"Professional advertisement for ", company_name, ". ">> \o prompt
    \o <<". High quality, commercial style, modern design, clean layout, professional lighting">>

RemoteImage(ad_prompt) ==
    [model |-> "stabilityai/stable-diffusion-3.5-large", prompt |-> ad_prompt]

\* the result of a call that ended in the mock renderer
ViaMock(company_name, remote) ==
    LET m == generate_mock_image(company_name)
    IN  [remote |-> remote, mock |-> TRUE, raised |-> m.raised, image |-> m.image]

\* generate_ad_image with the except clause missing (mutant)
generate_ad_image_no_except(prompt, company_name, outcome) ==
    IF client = Null
    THEN ViaMock(company_name, "none")
    ELSE IF outcome = "image"
    THEN [remote |-> "image", mock |-> FALSE, raised |-> FALSE,
          image |-> B64Encode(PngBytes(RemoteImage(AdPrompt(prompt, company_name))))]
    ELSE [remote |-> "failed", mock |-> FALSE, raised |-> TRUE,
          image |-> NoImage]

\* AIService.generate_ad_image: [remote, mock, raised, image], remote being
\* "none" (no remote call), "image" (it gave an image) or "failed"
generate_ad_image(prompt, company_name, outcome) ==
    IF client = Null
    THEN ViaMock(company_name, "none")
    ELSE IF outcome = "image"
    THEN [remote |-> "image", mock |-> FALSE, raised |-> FALSE,
          image |-> B64Encode(PngBytes(RemoteImage(AdPrompt(prompt, company_name))))]
    ELSE ViaMock(company_name, "failed")

\* no call of the AI service was made
NoGen == [remote |-> "none", mock |-> FALSE, raised |-> FALSE,
          image |-> NoImage]

(***************************************************************************)
(* Prompt Builder.                                                         *)
(***************************************************************************)
\* base_prompt without the Industry line (mutant)
BasePromptNoIndustry(company, request) ==
    <<"\n    Create a professional advertisement for ", Fmt(company.name),
      ".\n    Product/Service: ", Fmt(company.product_service),
      "\n    Target Audience: ", Fmt(company.target_audience),
      "\n    Brand Description: ", Fmt(company.brand_description),
      "\n    Style: ", Fmt(request.style),
      "\n    Format: ", Fmt(request.ad_type), "\n    ">>
    \o (IF Truthy(request.custom_prompt)
        THEN <<"\nAdditional Requirements: ", request.custom_prompt>> ELSE <<>>)

\* generate_ad: base_prompt
BasePrompt(company, request) ==
    <<"\n    Create a professional advertisement for ", Fmt(company.name),
      ".\n    Industry: ", Fmt(company.industry),
      "\n    Product/Service: ", Fmt(company.product_service),
      "\n    Target Audience: ", Fmt(company.target_audience),
      "\n    Brand Description: ", Fmt(company.brand_description),
      "\n    Style: ", Fmt(request.style),
      "\n    Format: ", Fmt(request.ad_type), "\n    ">>
    \o (IF Truthy(request.custom_prompt)
        THEN <<"\nAdditional Requirements: ", request.custom_prompt>> ELSE <<>>)

(***************************************************************************)
(* Persistence Gateway and the pydantic models.                            *)
(***************************************************************************)
CompanyIds == {c.id : c \in companies}
AdIds == {a.id : a \in ads}

\* find_one with an empty filter: any company matches (mutant)
find_company_no_filter(company_id) == companies

\* db.companies.find_one({"id": company_id}): the matching documents
find_company(company_id) == {c \in companies : c.id = company_id}

\* db.ads.find({"company_id": company_id})
find_ads(company_id) == {a \in ads : a.company_id = company_id}

\* delete_one that reports a deletion whatever it found (mutant)
delete_one_always(ad_id) ==
    [deleted_count |-> 1, ads |-> {a \in ads : a.id # ad_id}]

\* delete_one with an empty filter: it takes the first ad there is (mutant)
delete_one_no_filter(ad_id) ==
    [deleted_count |-> IF ads # {} THEN 1 ELSE 0,
     ads |-> IF ads = {} THEN ads ELSE ads \ {CHOOSE a \in ads : TRUE}]

\* db.ads.delete_one({"id": ad_id}): [deleted_count, ads]
delete_one(ad_id) ==
    [deleted_count |-> IF ad_id \in AdIds THEN 1 ELSE 0,
     ads |-> {a \in ads : a.id # ad_id}]

\* CompanyProfileResponse(**company_dict) validates
ValidCompanyResponse(doc) ==
    /\ IsStr(doc.brand_description)
    /\ IsStr(doc.website)

\* GeneratedAd(**ad) validates
ValidGeneratedAd(ad) == IsStr(ad.style)

\* the ad_dict with the ad's own id as company_id (mutant)
AdDictOwnId(id, request, image_data, base_prompt) ==
    [id |-> id, company_id |-> id, image_data |-> image_data,
     prompt_used |-> base_prompt, ad_type |-> request.ad_type, style |-> request.style]

\* generate_ad: ad_dict
AdDict(id, request, image_data, base_prompt) ==
    [id |-> id, company_id |-> request.company_id, image_data |-> image_data,
     prompt_used |-> base_prompt, ad_type |-> request.ad_type, style |-> request.style]

(***************************************************************************)
(* HTTP Route Layer.  inflight is the bag of requests suspended at an      *)
(* await; resp is the response the last step sent, if it sent one.         *)
(***************************************************************************)
NoResp == [kind |-> "none"]

Suspended == BagToSet(inflight)
Suspend(r) == inflight (+) SetToBag({r})
Resume(r) == inflight (-) SetToBag({r})

\* generate_ad requests between find_one and insert_one that hold no id yet
AwaitingId == LET b == [r \in {q \in Suspended : q.pc = "generate"} |-> inflight[r]]
              IN  BagCardinality(b)

\* ids a client can have seen and ask for: those of companies, those of ads,
\* and 0 for an id of nothing
CompanyTargets == {0} \cup CompanyIds
AdTargets == {0} \cup insertedIds
KnownIds == CompanyTargets \cup AdTargets

\* health_check with the two labels exchanged (mutant)
HealthBodySwapped == [status |-> "healthy",
                      ai_service |-> IF client # Null THEN "mock_mode" ELSE "ready"]

\* health_check: the response body
HealthBody == [status |-> "healthy",
               ai_service |-> IF client # Null THEN "ready" ELSE "mock_mode"]

\* GET /api/health
health_check ==
    /\ resp' = [kind |-> "health", status |-> 200, body |-> HealthBody, gen |-> NoGen]
    /\ UNCHANGED <<config, companies, ads, nextId, inflight, insertedIds, deletedIds, delOk>>

\* POST /api/companies
create_company(profile) ==
    /\ nextId + AwaitingId <= MaxId
    /\ LET doc == [id |-> nextId, name |-> profile.name, industry |-> profile.industry,
                   product_service |-> profile.product_service,
                   target_audience |-> profile.target_audience,
                   brand_description |-> profile.brand_description,
                   website |-> profile.website]
       IN  /\ companies' = companies \cup {doc}
           /\ resp' = [kind |-> "create_company",
                       status |-> IF ValidCompanyResponse(doc) THEN 200 ELSE 500,
                       id |-> doc.id]
    /\ nextId' = nextId + 1
    /\ UNCHANGED <<config, ads, inflight, insertedIds, deletedIds, delOk>>

\* POST /api/generate-ad up to the company lookup; 404 when it finds nothing
generate_ad_find(request) ==
    /\ LET found == find_company(request.company_id)
       IN  IF found = {}
           THEN /\ inflight' = inflight
                /\ resp' = [kind |-> "generate_ad", status |-> 404,
                            request |-> request, gen |-> NoGen, stored |-> FALSE]
           ELSE /\ BagCardinality(inflight) < MaxInFlight
                /\ nextId + AwaitingId <= MaxId
                /\ inflight' = Suspend([pc |-> "generate", request |-> request,
                                        company |-> CHOOSE c \in found : TRUE])
                /\ resp' = NoResp
    /\ UNCHANGED <<config, companies, ads, nextId, insertedIds, deletedIds, delOk>>

\* generate_ad from the prompt to the ad_dict handed to insert_one
generate_ad_image_step(r, outcome) ==
    /\ r.pc = "generate"
    /\ LET base_prompt == BasePrompt(r.company, r.request)
           gen == generate_ad_image(base_prompt, r.company.name, outcome)
       IN  IF gen.raised
           THEN /\ inflight' = Resume(r)
                /\ resp' = [kind |-> "generate_ad", status |-> 500, request |-> r.request,
                            gen |-> gen, stored |-> FALSE]
                /\ nextId' = nextId
           ELSE /\ inflight' = Resume(r) (+) SetToBag({
                                [pc |-> "insert", request |-> r.request, gen |-> gen,
                                 ad_dict |-> AdDict(nextId, r.request, gen.image, base_prompt)]})
                /\ resp' = NoResp
                /\ nextId' = nextId + 1
    /\ UNCHANGED <<config, companies, ads, insertedIds, deletedIds, delOk>>

\* generate_ad from insert_one to the response
generate_ad_insert(r, dbOk) ==
    /\ r.pc = "insert"
    /\ LET ad == r.ad_dict
           base == [kind |-> "generate_ad", request |-> r.request, gen |-> r.gen,
                    stored |-> dbOk, ad_id |-> ad.id]
       IN  IF ~dbOk
           THEN /\ resp' = base @@ [status |-> 500]
                /\ UNCHANGED <<ads, insertedIds>>
           ELSE /\ ads' = ads \cup {ad}
                /\ insertedIds' = insertedIds \cup {ad.id}
                /\ resp' = IF ValidGeneratedAd(ad)
                           THEN base @@ [status |-> 200, body |-> ad]
                           ELSE base @@ [status |-> 500]
    /\ inflight' = Resume(r)
    /\ UNCHANGED <<config, companies, nextId, deletedIds, delOk>>

\* GET /api/ads/{company_id}
get_company_ads(company_id) ==
    /\ LET found == find_ads(company_id)
       IN  resp' = IF \A a \in found : ValidGeneratedAd(a)
                   THEN [kind |-> "get_company_ads", status |-> 200,
                         company_id |-> company_id, body |-> found]
                   ELSE [kind |-> "get_company_ads", status |-> 500,
                         company_id |-> company_id]
    /\ UNCHANGED <<config, companies, ads, nextId, inflight, insertedIds, deletedIds, delOk>>

\* DELETE /api/ads/{ad_id} up to the answer of delete_one
delete_ad_delete_one(ad_id) ==
    /\ BagCardinality(inflight) < MaxInFlight
    /\ LET result == delete_one(ad_id)
       IN  /\ ads' = result.ads
           /\ deletedIds' = IF ad_id \in AdIds THEN deletedIds \cup {ad_id} ELSE deletedIds
           /\ inflight' = Suspend([pc |-> "respond", ad_id |-> ad_id,
                                   existed |-> ad_id \in AdIds,
                                   deleted_count |-> result.deleted_count])
    /\ resp' = NoResp
    /\ UNCHANGED <<config, companies, nextId, insertedIds, delOk>>

\* delete_ad: 404 when nothing was deleted, else the confirmation
delete_ad_respond(r) ==
    /\ r.pc = "respond"
    /\ LET ok == r.deleted_count # 0
       IN  /\ resp' = [kind |-> "delete_ad", status |-> IF ok THEN 200 ELSE 404,
                       ad_id |-> r.ad_id, existed |-> r.existed]
           /\ delOk' = IF ok THEN [delOk EXCEPT ![r.ad_id] = @ + 1] ELSE delOk
    /\ inflight' = Resume(r)
    /\ UNCHANGED <<config, companies, ads, nextId, insertedIds, deletedIds>>

(***************************************************************************)
(* The system.                                                             *)
(***************************************************************************)
Init ==
    /\ hf_token \in Tokens
    /\ client = InferenceClient(hf_token)
    /\ defaultFont \in Fonts
    /\ companies = {}
    /\ ads = {}
    /\ nextId = 1
    /\ inflight = EmptyBag
    /\ resp = NoResp
    /\ insertedIds = {}
    /\ deletedIds = {}
    /\ delOk = [i \in Ids |-> 0]

Next ==
    \/ health_check
    \/ \E profile \in Profiles : create_company(profile)
    \/ \E id \in CompanyTargets, o \in AdOptions :
          generate_ad_find([company_id |-> id] @@ o)
    \/ \E r \in Suspended, outcome \in RemoteOutcomes : generate_ad_image_step(r, outcome)
    \/ \E r \in Suspended, dbOk \in BOOLEAN : generate_ad_insert(r, dbOk)
    \/ \E id \in KnownIds : get_company_ads(id)
    \/ \E id \in AdTargets : delete_ad_delete_one(id)
    \/ \E r \in Suspended : delete_ad_respond(r)

Spec == Init /\ [][Next]_vars

(***************************************************************************)
(* What the claims speak of.                                               *)
(***************************************************************************)
CompanyOf(id) == CHOOSE c \in companies : c.id = id

\* the calls of generate_ad_image whose result is in sight: those of the
\* requests waiting for insert_one and that of the request just answered
GenCalls ==
    {[gen |-> r.gen, company_id |-> r.request.company_id] :
        r \in {q \in Suspended : q.pc = "insert"}}
    \cup (IF resp.kind = "generate_ad" /\ resp.status # 404
          THEN {[gen |-> resp.gen, company_id |-> resp.request.company_id]}
          ELSE {})

GenRequests ==
    {r.request : r \in {q \in Suspended : q.pc \in {"generate", "insert"}}}

PendingDeletes(id, n) ==
    LET rs == {q \in Suspended : q.pc = "respond" /\ q.ad_id = id /\ q.deleted_count = n}
    IN  BagCardinality([r \in rs |-> inflight[r]])

AdAnswered == resp.kind = "generate_ad" /\ resp.status = 200

(***************************************************************************)
(* C1: with a credential, a call of generate_ad_image whose remote         *)
(* invocation or PNG conversion fails returns what the mock renderer       *)
(* returns for the company name, and raises only if the mock renderer      *)
(* raises.                                                                 *)
(***************************************************************************)
C1_RemoteFailureFallsBack ==
    \A g \in GenCalls :
        (client # Null /\ g.gen.remote = "failed") =>
            LET m == generate_mock_image(CompanyOf(g.company_id).name)
            IN  /\ g.gen.raised = m.raised
                /\ g.gen.image = m.image
                /\ ~m.raised => IsEncodedPng(g.gen.image)

C1_Witness ==
    /\ client # Null
    /\ AdAnswered
    /\ resp.gen.remote = "failed"
    /\ resp.gen.mock

(***************************************************************************)
(* C2: without a credential no remote invocation is ever attempted and     *)
(* every call of generate_ad_image returns a non-empty encoded image made  *)
(* by the mock renderer.                                                   *)
(***************************************************************************)
C2_MockModeAlwaysReturnsImage ==
    ~Truthy(hf_token) =>
        /\ client = Null
        /\ \A g \in GenCalls :
              /\ g.gen.remote = "none"
              /\ g.gen.mock
              /\ ~g.gen.raised
              /\ IsEncodedPng(g.gen.image)

\* C2's case: a call answered in mock mode
C2_Witness ==
    /\ client = Null
    /\ AdAnswered
    /\ resp.gen.remote = "none"
    /\ resp.gen.mock

(***************************************************************************)
(* C3: generate-ad for a company_id that no company has answers 404, and   *)
(* no such request reaches the AI service or the ads collection.           *)
(***************************************************************************)
C3_UnknownCompanyIs404 ==
    /\ \A q \in GenRequests : q.company_id \in CompanyIds
    /\ resp.kind = "generate_ad" =>
          /\ resp.status = 404 <=> resp.request.company_id \notin CompanyIds
          /\ resp.status = 404 =>
                /\ resp.gen = NoGen
                /\ ~resp.stored
                /\ \A a \in ads : a.company_id # resp.request.company_id

C3_Witness ==
    /\ resp.kind = "generate_ad"
    /\ resp.status = 404
    /\ companies # {}
    /\ ads # {}

\* DELETE /api/ads/{id}: a delete of an id no ad has answers 404 and removes
\* nothing; a delete of an existing ad answers the confirmation and removes
\* that ad for good
C4_DeleteSemantics ==
    /\ AdIds = insertedIds \ deletedIds
    /\ \A q \in Suspended : q.pc = "respond" =>
          q.deleted_count = (IF q.existed THEN 1 ELSE 0)
    /\ resp.kind = "delete_ad" =>
          /\ resp.status = (IF resp.existed THEN 200 ELSE 404)
          /\ resp.ad_id \notin AdIds

(***************************************************************************)
(* C4 as claimed: a delete of an id no ad has answers 404 and removes      *)
(* nothing, a delete of an existing ad answers the confirmation and        *)
(* removes it, and a later fetch of the deleted id answers 404.            *)
(***************************************************************************)
C4_FetchAfterDeleteIs404 ==
    /\ C4_DeleteSemantics
    /\ (resp.kind = "get_company_ads" /\ resp.company_id \in deletedIds) =>
          resp.status = 404

(***************************************************************************)
(* C4 as amended: a delete of an id no ad has answers 404 and removes      *)
(* nothing, a delete of an existing ad answers the confirmation and        *)
(* removes it for good; GET /api/ads/{id} is the listing by company: it    *)
(* never answers 404, and for the id of a deleted ad it answers 200 with   *)
(* an empty list.                                                          *)
(***************************************************************************)
C4_DeleteThenListing ==
    /\ C4_DeleteSemantics
    /\ resp.kind = "get_company_ads" =>
          /\ resp.status # 404
          /\ resp.company_id \in deletedIds =>
                (resp.status = 200 /\ resp.body = {})

C4_Witness ==
    /\ resp.kind = "get_company_ads"
    /\ resp.company_id \in deletedIds
    /\ ads # {}
    /\ \E i \in Ids : delOk[i] = 1

\* prompt p embeds name, industry, product_service, target_audience and
\* brand_description of company c, the style and the ad_type of the request,
\* and ends with the additional-requirements line exactly when the request
\* has a non-empty custom_prompt
PromptEmbedsProfile(p, c, request) ==
    /\ Embeds(p, Fmt(c.name))
    /\ Embeds(p, Fmt(c.industry))
    /\ Embeds(p, Fmt(c.product_service))
    /\ Embeds(p, Fmt(c.target_audience))
    /\ Embeds(p, Fmt(c.brand_description))
    /\ Embeds(p, Fmt(request.style))
    /\ Embeds(p, Fmt(request.ad_type))
    /\ Embeds(p, "\nAdditional Requirements: ") <=> Truthy(request.custom_prompt)
    /\ Truthy(request.custom_prompt) =>
          /\ p[Len(p) - 1] = "\nAdditional Requirements: "
          /\ p[Len(p)] = request.custom_prompt

(***************************************************************************)
(* C5 as claimed: the prompt_used of a successful generate-ad is the       *)
(* stored one and embeds every field of the company, the website too,      *)
(* with the style and the ad_type; the custom_prompt is appended as an     *)
(* additional-requirements line exactly when it is non-empty.              *)
(***************************************************************************)
C5_PromptEmbedsEveryField ==
    AdAnswered =>
        LET c == CompanyOf(resp.body.company_id)
            p == resp.body.prompt_used
        IN  /\ \E a \in ads : a.id = resp.body.id /\ a.prompt_used = p
            /\ PromptEmbedsProfile(p, c, resp.request)
            /\ Embeds(p, Fmt(c.website))

(***************************************************************************)
(* C5 as amended: the prompt_used of a successful generate-ad is the       *)
(* stored one and embeds name, industry, product_service, target_audience  *)
(* and brand_description of the company (not the website), with the style  *)
(* and the ad_type; the custom_prompt is appended as an                    *)
(* additional-requirements line exactly when it is non-empty.              *)
(***************************************************************************)
C5_PromptEmbedsProfile ==
    AdAnswered =>
        LET c == CompanyOf(resp.body.company_id)
            p == resp.body.prompt_used
        IN  /\ \E a \in ads : a.id = resp.body.id /\ a.prompt_used = p
            /\ PromptEmbedsProfile(p, c, resp.request)

C5_Witness ==
    /\ AdAnswered
    /\ Truthy(resp.request.custom_prompt)
    /\ \E a \in ads : a.id # resp.body.id /\ ~Embeds(a.prompt_used, "\nAdditional Requirements: ")

(***************************************************************************)
(* C6: every ad, stored or on its way to insert_one, carries the id of a   *)
(* company of the companies collection.                                    *)
(***************************************************************************)
C6_AdsReferToCompanies ==
    /\ \A a \in ads : a.company_id \in CompanyIds
    /\ \A q \in Suspended : q.pc = "insert" =>
          /\ q.ad_dict.company_id \in CompanyIds
          /\ q.ad_dict.company_id = q.request.company_id

C6_Witness ==
    /\ Cardinality(companies) >= 2
    /\ \E q \in Suspended : q.pc = "insert"

(***************************************************************************)
(* C7: GET /api/ads/{company_id} answers 200 with exactly the stored ads   *)
(* of that company, an empty list when there are none.                     *)
(***************************************************************************)
C7_ListingIsExact ==
    resp.kind = "get_company_ads" =>
        /\ resp.status = 200
        /\ resp.body = find_ads(resp.company_id)

C7_Witness ==
    /\ resp.kind = "get_company_ads"
    /\ resp.status = 200
    /\ resp.company_id \in CompanyIds
    /\ resp.body = {}
    /\ ads # {}

\* the client is the one __init__ made for HF_TOKEN, and a health response
\* reports it without a remote call
C8_HealthInv ==
    /\ client = InferenceClient(hf_token)
    /\ resp.kind = "health" =>
          /\ resp.status = 200
          /\ resp.body.ai_service = (IF Truthy(hf_token) THEN "ready" ELSE "mock_mode")
          /\ resp.gen.remote = "none"

(***************************************************************************)
(* C8: the health check reports "ready" with a credential and "mock_mode"  *)
(* without one, calls nothing remote, and the configuration it reports     *)
(* never changes, whatever generation calls happen in between.             *)
(***************************************************************************)
C8_HealthIsStable == []C8_HealthInv /\ [][config' = config]_vars

C8_Witness ==
    /\ resp.kind = "health"
    /\ client # Null
    /\ \E a \in ads : a.image_data = generate_mock_image(CompanyOf(a.company_id).name).image
    /\ \E a \in ads : a.image_data # generate_mock_image(CompanyOf(a.company_id).name).image

(***************************************************************************)
(* C9: generate-ad for an existing company answers 500 only when the mock  *)
(* renderer or the insert raised; a remote failure alone ends in 200 with  *)
(* the ad stored; after a failed insert the ad is not in the collection.   *)
(***************************************************************************)
C9_ServerErrorOnlyFromMockOrInsert ==
    (resp.kind = "generate_ad" /\ resp.status # 404) =>
        /\ resp.status = 500 => (resp.gen.raised \/ ~resp.stored)
        /\ (~resp.gen.raised /\ resp.stored) =>
              (resp.status = 200 /\ resp.body \in ads)
        /\ (~resp.gen.raised /\ ~resp.stored) => resp.ad_id \notin AdIds

C9_Witness ==
    /\ resp.kind = "generate_ad"
    /\ resp.status = 500
    /\ ~resp.gen.raised
    /\ ~resp.stored
    /\ resp.gen.remote = "failed"

(***************************************************************************)
(* C10: of the deletes of one ad id, exactly one is answered with the      *)
(* confirmation once the ad is gone and none before; all others get 404;  *)
(* no other ad is removed.                                                 *)
(***************************************************************************)
C10_OneDeleteWins ==
    /\ \A id \in Ids :
          delOk[id] + PendingDeletes(id, 1) = (IF id \in deletedIds THEN 1 ELSE 0)
    /\ \A q \in Suspended : q.pc = "respond" => q.deleted_count \in {0, 1}
    /\ resp.kind = "delete_ad" =>
          /\ resp.status \in {200, 404}
          /\ resp.status = 404 => (delOk[resp.ad_id] + PendingDeletes(resp.ad_id, 1) = 1
                                   \/ resp.ad_id \notin deletedIds)
    /\ deletedIds \subseteq insertedIds
    /\ Cardinality(ads) = Cardinality(insertedIds) - Cardinality(deletedIds)

C10_Witness ==
    /\ \E id \in deletedIds : PendingDeletes(id, 1) = 1 /\ PendingDeletes(id, 0) = 1
    /\ ads # {}

====
